---- MODULE Spec2Model ----
(***************************************************************************)
(* State-machine model of the TDMAP map tooling of ezos (tools/maps):      *)
(*   process.py          pack_3bit_pixels, rle_compress, rle_decompress    *)
(*   archive.py          TDMAPWriter, TDMAPReader, verify_archive          *)
(*   pmtiles_to_tdmap.py Checkpoint, convert_pmtiles                       *)
(* Byte strings are sequences of 0..255, files are byte strings, and       *)
(* struct.pack / struct.unpack are modelled by their little-endian layout. *)
(***************************************************************************)
EXTENDS Integers, Sequences, FiniteSets, TLC

VARIABLES
    pc,          \* position of the process the specification runs
    data,        \* process.py: the argument of rle_compress
    compressed,  \* process.py: the value rle_compress returned
    restored,    \* process.py: the value rle_decompress returned
    indices,     \* process.py: the argument of pack_3bit_pixels
    packed,      \* process.py: the value pack_3bit_pixels returned
    writer,      \* archive.py: the TDMAPWriter object (tiles, labels, zooms)
    disk,        \* archive.py: the file at output_path
    raised,      \* the exception the last call raised, "" when it returned
    calls,       \* the add_tile and add_label calls made so far, in order
    reader,      \* archive.py: the outcome of constructing a TDMAPReader
    verified,    \* archive.py: what verify_archive returned, "none" before
    lookup,      \* archive.py: the last get_tile_data call and what it returned
    source,      \* pmtiles_to_tdmap.py: what each tile of the PMTiles input comes to
    checkpoint_interval,  \* pmtiles_to_tdmap.py: the argument of convert_pmtiles
    run,         \* pmtiles_to_tdmap.py: the locals of convert_pmtiles, its position
    checkpoint,  \* pmtiles_to_tdmap.py: the Checkpoint object of the run
    ckfile       \* pmtiles_to_tdmap.py: the checkpoint file on disk

codec_vars == <<data, compressed, restored, indices, packed>>
archive_vars == <<writer, calls, disk, raised, reader, verified, lookup>>
convert_vars == <<source, checkpoint_interval, run, checkpoint, ckfile>>
vars == <<pc, codec_vars, archive_vars, convert_vars>>

----------------------------------------------------------------------------
(* Bounds of the model                                                     *)

\* most runs of equal bytes an rle_compress input is assembled from
MaxRuns == 3
\* most palette indices handed to pack_3bit_pixels
MaxPix == 9
\* most add_tile calls before write()
MaxTiles == 3
\* most add_label calls before write()
MaxLabels == 2
\* most tiles in the plan of a convert_pmtiles run
MaxPlan == 2
\* most times convert_pmtiles is started on one source
MaxStarts == 2
\* tiles of the archives get_tile_data is called on
MaxIndex == 4

\* byte values of the rle inputs: the escape byte and two ordinary bytes
ByteVals == {0, 1, 255}
\* lengths of the runs the rle inputs are assembled from; equal neighbours
\* merge, so runs of 3, 5, 256, 257, 259, 510, ... bytes occur as well
RunLens == {1, 2, 4, 255}
\* palette indices of the pack inputs
PixVals == {0, 5, 7}

----------------------------------------------------------------------------
(* Helpers for Python's integer and bytes operations                       *)

Min(a, b) == IF a < b THEN a ELSE b
Max(a, b) == IF a > b THEN a ELSE b

\* 2^0 .. 2^30
Powers2 ==
    << 1, 2, 4, 8, 16, 32, 64, 128, 256, 512, 1024, 2048, 4096, 8192,
       16384, 32768, 65536, 131072, 262144, 524288, 1048576, 2097152,
       4194304, 8388608, 16777216, 33554432, 67108864, 134217728,
       268435456, 536870912, 1073741824 >>

\* 2^n
Pow2(n) == Powers2[n + 1]

\* a | b on non-negative integers
RECURSIVE BitOr(_, _)
BitOr(a, b) ==
    IF a = 0 THEN b
    ELSE IF b = 0 THEN a
    ELSE (IF a % 2 = 1 \/ b % 2 = 1 THEN 1 ELSE 0) + 2 * BitOr(a \div 2, b \div 2)

\* a & (2^n - 1), a << n, a >> n on non-negative integers
LowBits(a, n) == a % Pow2(n)
Shl(a, n) == a * Pow2(n)
Shr(a, n) == a \div Pow2(n)

\* [v] * n
Repeat(v, n) == [k \in 1..n |-> v]

\* the byte string a sequence of (byte, length) runs stands for
RECURSIVE Expand(_)
Expand(runs) ==
    IF runs = <<>> THEN <<>>
    ELSE Repeat(runs[1][1], runs[1][2]) \o Expand(Tail(runs))

\* sequences over S of length 0..n
SeqsUpTo(S, n) == UNION {[1..k -> S] : k \in 0..n}

----------------------------------------------------------------------------
(* process.py: pack_3bit_pixels                                            *)

\* pack_group with bit 2 of p[2] taken from the wrong shift in byte 1
pack_group_shift(g) ==
    LET p == [k \in 1..8 |-> LowBits(g[k], 3)]
        b0 == BitOr(BitOr(p[1], Shl(p[2], 3)), Shl(LowBits(p[3], 2), 6))
        b1 == BitOr(BitOr(BitOr(LowBits(Shr(p[3], 1), 1), Shl(p[4], 1)),
                          Shl(p[5], 4)), Shl(LowBits(p[6], 1), 7))
        b2 == BitOr(BitOr(LowBits(Shr(p[6], 1), 2), Shl(p[7], 2)), Shl(p[8], 5))
    IN <<b0, b1, b2>>

\* one group of 8 indices packed into 3 bytes (l.113-122); g[k] is the
\* source's p[k-1]
pack_group(g) ==
    LET p == [k \in 1..8 |-> LowBits(g[k], 3)]
        b0 == BitOr(BitOr(p[1], Shl(p[2], 3)), Shl(LowBits(p[3], 2), 6))
        b1 == BitOr(BitOr(BitOr(LowBits(Shr(p[3], 2), 1), Shl(p[4], 1)),
                          Shl(p[5], 4)), Shl(LowBits(p[6], 1), 7))
        b2 == BitOr(BitOr(LowBits(Shr(p[6], 1), 2), Shl(p[7], 2)), Shl(p[8], 5))
    IN <<b0, b1, b2>>

RECURSIVE pack_groups(_, _)
pack_groups(padded, i) ==
    IF i > Len(padded) THEN <<>>
    ELSE pack_group(SubSeq(padded, i, i + 7)) \o pack_groups(padded, i + 8)

pack_3bit_pixels(ix) ==
    LET padded == IF Len(ix) % 8 # 0
                  THEN ix \o Repeat(0, 8 - (Len(ix) % 8))
                  ELSE ix
    IN pack_groups(padded, 1)

----------------------------------------------------------------------------
(* process.py: rle_compress, rle_decompress                                *)

\* the inner loop of rle_compress (l.150-154): the length of the run of
\* d[i] that starts at i, counted up to 255; in closed form, the least count
\* at which the loop condition fails
rle_count(d, i) ==
    LET limit == Min(255, Len(d) - i + 1)
    IN CHOOSE count \in 1..limit :
          /\ count = limit \/ d[i + count] # d[i]
          /\ \A k \in 1..(count - 1) : d[i + k] = d[i]

\* rle_emit without the escape of a short run of 0xFF
rle_emit_no_escape(byte, count) ==
    IF count > 2 THEN <<255, count, byte>>
    ELSE IF count = 2 THEN <<byte, byte>>
    ELSE <<byte>>

\* an encoder that escapes every run, however short
rle_emit_always_escape(byte, count) == <<255, count, byte>>

\* what rle_compress emits for one run of count bytes (l.156-164)
rle_emit(byte, count) ==
    IF count > 2 \/ byte = 255 THEN <<255, count, byte>>
    ELSE IF count = 2 THEN <<byte, byte>>
    ELSE <<byte>>

RECURSIVE rle_compress_loop(_, _, _)
rle_compress_loop(d, i, result) ==
    IF i > Len(d) THEN result
    ELSE LET count == rle_count(d, i)
         IN rle_compress_loop(d, i + count, result \o rle_emit(d[i], count))

rle_compress(d) == IF d = <<>> THEN <<>> ELSE rle_compress_loop(d, 1, <<>>)

RECURSIVE rle_decompress_loop(_, _, _)
rle_decompress_loop(d, i, result) ==
    IF i > Len(d) THEN result
    ELSE IF d[i] = 255 /\ i + 2 <= Len(d)
         THEN rle_decompress_loop(d, i + 3, result \o Repeat(d[i + 2], d[i + 1]))
         ELSE rle_decompress_loop(d, i + 1, Append(result, d[i]))

rle_decompress(d) == rle_decompress_loop(d, 1, <<>>)

----------------------------------------------------------------------------
(* struct.pack / struct.unpack with a "<" format: little-endian, unpadded  *)

\* bytes one format code occupies
code_size(code) ==
    CASE code = "6s" -> 6
      [] code = "B" -> 1
      [] code = "b" -> 1
      [] code = "H" -> 2
      [] code = "I" -> 4

\* struct.calcsize
RECURSIVE calcsize(_)
calcsize(fmt) ==
    IF fmt = <<>> THEN 0 ELSE code_size(Head(fmt)) + calcsize(Tail(fmt))

\* whether struct.pack accepts v for the code (it raises struct.error if
\* not); the integers of the model stay below 2^31, so an unsigned 32-bit
\* field takes every one that is not negative
packable(code, v) ==
    CASE code = "6s" -> TRUE
      [] code = "b" -> v \in -128..127
      [] code = "I" -> v >= 0
      [] OTHER -> v \in 0..(Pow2(8 * code_size(code)) - 1)

\* the bytes of one packed value
pack_value(code, v) ==
    CASE code = "6s" -> [i \in 1..6 |-> IF i <= Len(v) THEN v[i] ELSE 0]
      [] code = "b" -> <<(v + 256) % 256>>
      [] OTHER -> [i \in 1..code_size(code) |-> (v \div Pow2(8 * (i - 1))) % 256]

RECURSIVE pack_values(_, _)
pack_values(fmt, vals) ==
    IF fmt = <<>> THEN <<>>
    ELSE pack_value(Head(fmt), Head(vals)) \o pack_values(Tail(fmt), Tail(vals))

\* struct.pack(fmt, *vals): ok is FALSE when it raises struct.error
struct_pack(fmt, vals) ==
    [ok |-> \A i \in 1..Len(fmt) : packable(fmt[i], vals[i]),
     bytes |-> pack_values(fmt, vals)]

\* the integer a little-endian byte string stands for
RECURSIVE from_le(_)
from_le(b) == IF b = <<>> THEN 0 ELSE Head(b) + 256 * from_le(Tail(b))

unpack_value(code, b) ==
    CASE code = "6s" -> b
      [] code = "b" -> IF b[1] >= 128 THEN b[1] - 256 ELSE b[1]
      [] OTHER -> from_le(b)

RECURSIVE unpack_values(_, _)
unpack_values(fmt, b) ==
    IF fmt = <<>> THEN <<>>
    ELSE <<unpack_value(Head(fmt), SubSeq(b, 1, code_size(Head(fmt))))>>
         \o unpack_values(Tail(fmt), SubSeq(b, code_size(Head(fmt)) + 1, Len(b)))

\* struct.unpack(fmt, b): ok is FALSE when it raises struct.error, which it
\* does unless b has exactly calcsize(fmt) bytes
struct_unpack(fmt, b) ==
    [ok |-> Len(b) = calcsize(fmt),
     vals |-> IF Len(b) = calcsize(fmt) THEN unpack_values(fmt, b) ELSE <<>>]

\* f.seek(pos); f.read(n) on a file holding bytes b
file_read(b, pos, n) == SubSeq(b, pos + 1, Min(pos + n, Len(b)))

----------------------------------------------------------------------------
(* config.py and the formats of archive.py                                 *)

TDMAP_VERSION == 4
COMPRESSION_RLE == 1
TILE_SIZE == 256
HEADER_SIZE == 33
PALETTE_SIZE == 16
INDEX_ENTRY_SIZE == 11
LABEL_SIZE_V3 == 5
LABEL_INDEX_SIZE == 11

HEADER_FORMAT == <<"6s", "B", "B", "H", "B", "I", "I", "I", "b", "b", "I", "I">>
PALETTE_FORMAT == <<"H", "H", "H", "H", "H", "H", "H", "H">>
INDEX_ENTRY_FORMAT == <<"B", "H", "H", "I", "H">>
LABEL_FORMAT_V3 == <<"B", "B", "B", "B", "B">>
LABEL_INDEX_FORMAT == <<"B", "H", "H", "I", "H">>

\* b"TDMAP\x00"
MAGIC == <<84, 68, 77, 65, 80, 0>>

\* a reader that takes every version byte
ANY_VERSION == 0..255

\* the versions TDMAPReader._read_header accepts
READER_VERSIONS == {1, 2, 3}

PALETTE_RGB ==
    << <<255, 255, 255>>, <<160, 208, 240>>, <<200, 230, 200>>, <<208, 208, 208>>,
       <<136, 136, 136>>, <<96, 96, 96>>, <<64, 64, 64>>, <<48, 48, 48>> >>

rgb_to_rgb565(r, g, b) ==
    BitOr(BitOr(Shl(LowBits(Shr(r, 3), 5), 11), Shl(LowBits(Shr(g, 2), 6), 5)),
          LowBits(Shr(b, 3), 5))

PALETTE_RGB565 ==
    [i \in 1..Len(PALETTE_RGB) |->
        rgb_to_rgb565(PALETTE_RGB[i][1], PALETTE_RGB[i][2], PALETTE_RGB[i][3])]

----------------------------------------------------------------------------
(* Python str: text is a sequence of code points                           *)

\* the code points str.strip() removes
WHITESPACE == {9, 10, 11, 12, 13, 28, 29, 30, 31, 32, 133, 160}

SetMin(S) == CHOOSE m \in S : \A n \in S : m <= n
SetMax(S) == CHOOSE m \in S : \A n \in S : m >= n

\* text.strip()
strip(text) ==
    LET keep == {i \in 1..Len(text) : text[i] \notin WHITESPACE}
    IN IF keep = {} THEN <<>> ELSE SubSeq(text, SetMin(keep), SetMax(keep))

\* text.encode('utf-8') for code points below 0x10000
RECURSIVE utf8_encode(_)
utf8_encode(text) ==
    IF text = <<>> THEN <<>>
    ELSE LET c == Head(text)
             enc == IF c < 128 THEN <<c>>
                    ELSE IF c < 2048 THEN <<192 + (c \div 64), 128 + (c % 64)>>
                    ELSE <<224 + (c \div 4096), 128 + ((c \div 64) % 64), 128 + (c % 64)>>
         IN enc \o utf8_encode(Tail(text))

----------------------------------------------------------------------------
(* archive.py: TileEntry, LabelEntry, TDMAPWriter                          *)

\* (a0, a1, a2) < (b0, b1, b2), Python's tuple order
tuple_less(a, b) ==
    \/ a[1] < b[1]
    \/ a[1] = b[1] /\ a[2] < b[2]
    \/ a[1] = b[1] /\ a[2] = b[2] /\ a[3] < b[3]

tile_key(t) == <<t.zoom, t.x, t.y>>
label_tile_key(l) == <<l.extraction_zoom, l.tile_x, l.tile_y>>

\* TDMAPWriter.__init__
new_writer == [tiles |-> <<>>, labels |-> <<>>, min_zoom |-> 255, max_zoom |-> 0]

\* an add_tile that appends the pair twice
add_tile_twice(w, zoom, x, y, bytes) ==
    LET pair == [zoom |-> zoom, x |-> x, y |-> y, offset |-> 0,
                 size |-> Len(bytes), data |-> bytes]
    IN [w EXCEPT !.tiles = @ \o <<pair, pair>>,
                 !.min_zoom = Min(@, zoom),
                 !.max_zoom = Max(@, zoom)]

\* TDMAPWriter.add_tile: the (TileEntry, data) pair is one record
add_tile(w, zoom, x, y, bytes) ==
    [w EXCEPT !.tiles = Append(@, [zoom |-> zoom, x |-> x, y |-> y, offset |-> 0,
                                   size |-> Len(bytes), data |-> bytes]),
              !.min_zoom = Min(@, zoom),
              !.max_zoom = Max(@, zoom)]

\* LabelEntry.__init__ from the positional arguments; extraction_zoom, the
\* ninth, defaults to zoom_min
LabelEntry(args, text) ==
    [zoom_min |-> args[1], zoom_max |-> args[2], tile_x |-> args[3],
     tile_y |-> args[4], pixel_x |-> args[5], pixel_y |-> args[6],
     label_type |-> args[7], text |-> text,
     extraction_zoom |-> IF Len(args) >= 9 THEN args[9] ELSE args[1]]

\* positional parameters add_label requires besides self (zoom_min .. text)
\* and the most it accepts (with extraction_zoom)
ADD_LABEL_REQUIRED == 8
ADD_LABEL_ACCEPTED == 9

\* TDMAPWriter.add_label(*args): a call with too few or too many arguments
\* raises TypeError; a blank text is dropped; the text is stored stripped
add_label(w, args) ==
    IF Len(args) < ADD_LABEL_REQUIRED \/ Len(args) > ADD_LABEL_ACCEPTED
    THEN [writer |-> w, raised |-> "TypeError"]
    ELSE IF args[8] = <<>> \/ strip(args[8]) = <<>>
    THEN [writer |-> w, raised |-> ""]
    ELSE [writer |-> [w EXCEPT !.labels = Append(@, LabelEntry(args, strip(args[8])))],
          raised |-> ""]

\* sort_tiles that leaves the tiles in the order they were added
sort_tiles_unsorted(tiles) == tiles

\* tile_offset that does not advance past the payloads before the tile
tile_offset_stuck(payloads, data_offset, i) == data_offset

\* list.sort(key=(zoom, x, y)) is stable: an entry goes behind the entries
\* whose key is not greater
sort_insert(sorted, t) ==
    LET after == {i \in 1..Len(sorted) : tuple_less(tile_key(t), tile_key(sorted[i]))}
        at == IF after = {} THEN Len(sorted) + 1 ELSE SetMin(after)
    IN SubSeq(sorted, 1, at - 1) \o <<t>> \o SubSeq(sorted, at, Len(sorted))

RECURSIVE sort_tiles_from(_, _)
sort_tiles_from(tiles, sorted) ==
    IF tiles = <<>> THEN sorted
    ELSE sort_tiles_from(Tail(tiles), sort_insert(sorted, Head(tiles)))

sort_tiles(tiles) == sort_tiles_from(tiles, <<>>)

\* sorted(labels_by_tile.keys())
RECURSIVE sorted_keys(_)
sorted_keys(keys) ==
    IF keys = {} THEN <<>>
    ELSE LET least == CHOOSE k \in keys : \A o \in keys : o = k \/ tuple_less(k, o)
         IN <<least>> \o sorted_keys(keys \ {least})

sorted_tile_keys(labels) ==
    sorted_keys({label_tile_key(labels[i]) : i \in 1..Len(labels)})

\* labels_by_tile[key]: the labels of a tile in the order they were added
labels_of_tile(labels, key) == SelectSeq(labels, LAMBDA l : label_tile_key(l) = key)

\* the total length of the first n of a sequence of byte strings
RECURSIVE total_len(_, _)
total_len(chunks, n) == IF n = 0 THEN 0 ELSE Len(chunks[n]) + total_len(chunks, n - 1)

RECURSIVE concat(_)
concat(chunks) == IF chunks = <<>> THEN <<>> ELSE Head(chunks) \o concat(Tail(chunks))

\* LabelEntry.pack_v3
pack_v3(l) ==
    LET encoded == utf8_encode(l.text)
        text_bytes == SubSeq(encoded, 1, Min(255, Len(encoded)))
        fixed == struct_pack(LABEL_FORMAT_V3,
                     <<l.pixel_x, l.pixel_y, l.zoom_min, l.zoom_max, l.label_type>>)
    IN [ok |-> fixed.ok, bytes |-> fixed.bytes \o <<Len(text_bytes)>> \o text_bytes]

\* b''.join(label.pack_v3() for label in tile_labels)
pack_tile_labels(tile_labels) ==
    [ok |-> \A i \in 1..Len(tile_labels) : pack_v3(tile_labels[i]).ok,
     bytes |-> concat([i \in 1..Len(tile_labels) |-> pack_v3(tile_labels[i]).bytes])]

\* what the with-block of write() leaves in the file: the parts written
\* before the first struct.pack that raises
RECURSIVE written_prefix(_)
written_prefix(parts) ==
    IF parts = <<>> \/ ~Head(parts).ok THEN <<>>
    ELSE Head(parts).bytes \o written_prefix(Tail(parts))

\* the offset write() gives the i-th tile of the sorted list: the tile data
\* offset advanced by the payloads before it (l.278-281)
tile_offset(payloads, data_offset, i) == data_offset + total_len(payloads, i - 1)

\* the bytes write() produces for the tiles and labels of a writer, stamped
\* with the given version; the outcome holds the writer (its tiles sorted,
\* their offsets set), the file and the exception raised, if any
write_as(w, d, version) ==
    IF w.tiles = <<>>
    THEN [writer |-> w, disk |-> d, raised |-> "ValueError"]
    ELSE
    LET sorted == sort_tiles(w.tiles)
        keys == sorted_tile_keys(w.labels)
        index_offset == HEADER_SIZE + PALETTE_SIZE
        data_offset == index_offset + Len(sorted) * INDEX_ENTRY_SIZE
        payloads == [i \in 1..Len(sorted) |-> sorted[i].data]
        placed == [i \in 1..Len(sorted) |->
                      [sorted[i] EXCEPT !.offset = tile_offset(payloads, data_offset, i)]]
        label_index_offset == tile_offset(payloads, data_offset, Len(payloads) + 1)
        label_index_count == Len(keys)
        label_data_offset == label_index_offset + label_index_count * LABEL_INDEX_SIZE
        packed_labels == [j \in 1..Len(keys) |->
                             pack_tile_labels(labels_of_tile(w.labels, keys[j]))]
        chunks == [j \in 1..Len(keys) |-> packed_labels[j].bytes]
        header == struct_pack(HEADER_FORMAT,
                      <<MAGIC, version, COMPRESSION_RLE, TILE_SIZE, Len(PALETTE_RGB565),
                        Len(placed), index_offset, data_offset, w.min_zoom, w.max_zoom,
                        label_index_offset, label_index_count>>)
        palette == struct_pack(PALETTE_FORMAT, PALETTE_RGB565)
        index == [i \in 1..Len(placed) |->
                     struct_pack(INDEX_ENTRY_FORMAT,
                         <<placed[i].zoom, placed[i].x, placed[i].y,
                           placed[i].offset, placed[i].size>>)]
        tile_data == [i \in 1..Len(placed) |-> [ok |-> TRUE, bytes |-> placed[i].data]]
        label_index == [j \in 1..Len(keys) |->
                           struct_pack(LABEL_INDEX_FORMAT,
                               <<keys[j][1], keys[j][2], keys[j][3],
                                 label_data_offset + total_len(chunks, j - 1),
                                 Len(labels_of_tile(w.labels, keys[j]))>>)]
        label_data == [j \in 1..Len(keys) |-> [ok |-> TRUE, bytes |-> chunks[j]]]
        parts == <<header, palette>> \o index \o tile_data \o label_index \o label_data
        w2 == [w EXCEPT !.tiles = placed]
    IN IF \E j \in 1..Len(keys) : ~packed_labels[j].ok
       THEN [writer |-> w2, disk |-> d, raised |-> "struct.error"]
       ELSE [writer |-> w2,
             disk |-> [exists |-> TRUE, bytes |-> written_prefix(parts)],
             raised |-> IF \A i \in 1..Len(parts) : parts[i].ok THEN "" ELSE "struct.error"]

\* TDMAPWriter.write
write(w, d) == write_as(w, d, TDMAP_VERSION)

----------------------------------------------------------------------------
(* archive.py: TDMAPReader, verify_archive                                 *)

LABEL_HEADER_FORMAT_V2 == <<"B", "B", "H", "H", "B", "B", "B">>
LABEL_HEADER_SIZE_V2 == 9

\* U+FFFD, what decode(errors='replace') puts for bytes that are not UTF-8
REPLACEMENT == 65533

IsCont(b, i) == i <= Len(b) /\ b[i] \in 128..191

\* bytes.decode('utf-8', errors='replace') for the one-, two- and
\* three-byte forms; any other byte decodes to U+FFFD
RECURSIVE utf8_decode_from(_, _)
utf8_decode_from(b, i) ==
    IF i > Len(b) THEN <<>>
    ELSE IF b[i] < 128 THEN <<b[i]>> \o utf8_decode_from(b, i + 1)
    ELSE IF b[i] \in 194..223 /\ IsCont(b, i + 1)
         THEN <<(b[i] - 192) * 64 + (b[i + 1] - 128)>> \o utf8_decode_from(b, i + 2)
    ELSE IF b[i] \in 224..239 /\ IsCont(b, i + 1) /\ IsCont(b, i + 2)
            /\ (b[i] = 224 => b[i + 1] >= 160) /\ (b[i] = 237 => b[i + 1] < 160)
         THEN <<(b[i] - 224) * 4096 + (b[i + 1] - 128) * 64 + (b[i + 2] - 128)>>
              \o utf8_decode_from(b, i + 3)
    ELSE IF b[i] \in 224..239 /\ IsCont(b, i + 1)
            /\ (b[i] = 224 => b[i + 1] >= 160) /\ (b[i] = 237 => b[i + 1] < 160)
         THEN <<REPLACEMENT>> \o utf8_decode_from(b, i + 2)
    ELSE <<REPLACEMENT>> \o utf8_decode_from(b, i + 1)

utf8_decode(b) == utf8_decode_from(b, 1)

\* TDMAPReader.__init__ before _read_header has run; status tells how the
\* construction ended: "none" (not attempted), "ok", or "error" with the
\* exception in error
new_reader ==
    [status |-> "none", error |-> "", version |-> 0, tile_size |-> 256,
     min_zoom |-> 0, max_zoom |-> 0, label_index_offset |-> 0,
     label_index_count |-> 0, palette |-> <<>>, tiles |-> <<>>,
     labels |-> <<>>, label_index |-> <<>>]

reader_error(r, exception) == [r EXCEPT !.status = "error", !.error = exception]

\* the tile index loop of _read_header: count entries read from pos on;
\* a short read makes struct.unpack raise
RECURSIVE read_tile_index(_, _, _, _)
read_tile_index(b, pos, count, acc) ==
    IF count = 0 THEN [ok |-> TRUE, tiles |-> acc]
    ELSE LET u == struct_unpack(INDEX_ENTRY_FORMAT, file_read(b, pos, INDEX_ENTRY_SIZE))
         IN IF ~u.ok THEN [ok |-> FALSE, tiles |-> acc]
            ELSE read_tile_index(b, pos + INDEX_ENTRY_SIZE, count - 1,
                     Append(acc, [zoom |-> u.vals[1], x |-> u.vals[2], y |-> u.vals[3],
                                  offset |-> u.vals[4], size |-> u.vals[5]]))

\* the label index loop of _read_header (version 3): a short read ends it
RECURSIVE read_label_index(_, _, _, _)
read_label_index(b, pos, count, acc) ==
    IF count = 0 \/ Len(file_read(b, pos, LABEL_INDEX_SIZE)) < LABEL_INDEX_SIZE THEN acc
    ELSE LET u == struct_unpack(LABEL_INDEX_FORMAT, file_read(b, pos, LABEL_INDEX_SIZE))
         IN read_label_index(b, pos + LABEL_INDEX_SIZE, count - 1,
                Append(acc, [zoom |-> u.vals[1], tile_x |-> u.vals[2], tile_y |-> u.vals[3],
                             offset |-> u.vals[4], count |-> u.vals[5]]))

\* LabelEntry.unpack_v3(data, 0, extraction_zoom, tile_x, tile_y)
unpack_v3(bytes, extraction_zoom, tile_x, tile_y) ==
    LET u == struct_unpack(LABEL_FORMAT_V3, SubSeq(bytes, 1, LABEL_SIZE_V3))
        text_len == bytes[LABEL_SIZE_V3 + 1]
        text_start == LABEL_SIZE_V3 + 1
    IN LabelEntry(<<u.vals[3], u.vals[4], tile_x, tile_y, u.vals[1], u.vals[2], u.vals[5],
                    <<>>, extraction_zoom>>,
                  utf8_decode(file_read(bytes, text_start, text_len)))

\* the labels of one index entry (version 3), read from pos on: the header
\* read takes LABEL_SIZE_V3 bytes and text_len is then taken from
\* label_header[5], one past the last byte read, which raises IndexError
RECURSIVE read_tile_labels(_, _, _, _, _)
read_tile_labels(b, pos, entry, count, acc) ==
    LET label_header == file_read(b, pos, LABEL_SIZE_V3)
    IN IF count = 0 \/ Len(label_header) < LABEL_SIZE_V3
       THEN [ok |-> TRUE, labels |-> acc]
       ELSE IF Len(label_header) <= 5
       THEN [ok |-> FALSE, labels |-> acc]
       ELSE LET text_len == label_header[6]
                text_data == file_read(b, pos + LABEL_SIZE_V3, text_len)
            IN read_tile_labels(b, pos + LABEL_SIZE_V3 + Len(text_data), entry, count - 1,
                   Append(acc, unpack_v3(label_header \o text_data,
                                         entry.zoom, entry.tile_x, entry.tile_y)))

\* the eager label load of _read_header (version 3) over the label index
RECURSIVE read_labels_v3(_, _, _)
read_labels_v3(b, index, acc) ==
    IF index = <<>> THEN [ok |-> TRUE, labels |-> acc]
    ELSE LET got == read_tile_labels(b, Head(index).offset, Head(index),
                                     Head(index).count, acc)
         IN IF ~got.ok THEN got ELSE read_labels_v3(b, Tail(index), got.labels)

\* the label loop of _read_header (version 2) over labels_data, with
\* LabelEntry.unpack_v2: struct.unpack_from raises struct.error when the
\* fixed part lies beyond the data, and data[offset + 9] raises IndexError
\* when the text length byte does
RECURSIVE read_labels_v2(_, _, _, _)
read_labels_v2(labels_data, offset, count, acc) ==
    IF count = 0 \/ offset >= Len(labels_data)
    THEN [ok |-> TRUE, error |-> "", labels |-> acc]
    ELSE IF offset + LABEL_HEADER_SIZE_V2 > Len(labels_data)
    THEN [ok |-> FALSE, error |-> "struct.error", labels |-> acc]
    ELSE IF offset + LABEL_HEADER_SIZE_V2 >= Len(labels_data)
    THEN [ok |-> FALSE, error |-> "IndexError", labels |-> acc]
    ELSE LET u == struct_unpack(LABEL_HEADER_FORMAT_V2,
                      file_read(labels_data, offset, LABEL_HEADER_SIZE_V2))
             text_len == labels_data[offset + LABEL_HEADER_SIZE_V2 + 1]
             text_start == offset + LABEL_HEADER_SIZE_V2 + 1
             text == utf8_decode(file_read(labels_data, text_start, text_len))
         IN read_labels_v2(labels_data, offset + LABEL_HEADER_SIZE_V2 + 1 + text_len,
                count - 1,
                Append(acc, LabelEntry(<<u.vals[1], u.vals[2], u.vals[3], u.vals[4],
                                         u.vals[5], u.vals[6], u.vals[7]>>, text)))

\* TDMAPReader(archive_path): __init__ and _read_header
read_header(d) ==
    IF ~d.exists THEN reader_error(new_reader, "FileNotFoundError")
    ELSE
    LET b == d.bytes
        h == struct_unpack(HEADER_FORMAT, file_read(b, 0, HEADER_SIZE))
        magic == h.vals[1]
        version == h.vals[2]
        tile_count == h.vals[6]
        index_offset == h.vals[7]
        r1 == [new_reader EXCEPT
                  !.version = version, !.tile_size = h.vals[4],
                  !.min_zoom = h.vals[9], !.max_zoom = h.vals[10],
                  !.label_index_offset = IF version >= 2 THEN h.vals[11] ELSE 0,
                  !.label_index_count = IF version >= 2 THEN h.vals[12] ELSE 0]
        p == struct_unpack(PALETTE_FORMAT, file_read(b, HEADER_SIZE, PALETTE_SIZE))
        r2 == [r1 EXCEPT !.palette = p.vals]
        t == read_tile_index(b, index_offset, tile_count, <<>>)
        r3 == [r2 EXCEPT !.tiles = t.tiles]
        has_labels == r3.label_index_count > 0 /\ r3.label_index_offset > 0
        l2 == read_labels_v2(file_read(b, r3.label_index_offset, Len(b)), 0,
                             r3.label_index_count, <<>>)
        lidx == read_label_index(b, r3.label_index_offset, r3.label_index_count, <<>>)
        l3 == read_labels_v3(b, lidx, <<>>)
    IN IF ~h.ok THEN reader_error(new_reader, "struct.error")
       ELSE IF magic # MAGIC THEN reader_error(new_reader, "ValueError: magic")
       ELSE IF version \notin READER_VERSIONS
       THEN reader_error(new_reader, "ValueError: version")
       ELSE IF ~p.ok THEN reader_error(r1, "struct.error")
       ELSE IF ~t.ok THEN reader_error(r3, "struct.error")
       ELSE IF version = 2 /\ has_labels
       THEN IF l2.ok THEN [r3 EXCEPT !.status = "ok", !.labels = l2.labels]
            ELSE reader_error([r3 EXCEPT !.labels = l2.labels], l2.error)
       ELSE IF version >= 3 /\ has_labels
       THEN IF l3.ok THEN [r3 EXCEPT !.status = "ok", !.label_index = lidx,
                                     !.labels = l3.labels]
            ELSE reader_error([r3 EXCEPT !.label_index = lidx, !.labels = l3.labels],
                              "IndexError")
       ELSE [r3 EXCEPT !.status = "ok"]

\* a search that gives up after its first probe
find_tile_one_probe(tiles, target, lo, hi) ==
    IF lo > hi THEN -1
    ELSE IF tile_key(tiles[((lo + hi) \div 2) + 1]) = target THEN (lo + hi) \div 2
    ELSE -1

\* the binary search of get_tile_data over lo..hi (indices from 0): the
\* index found, -1 when the loop ends without a match
RECURSIVE find_tile(_, _, _, _)
find_tile(tiles, target, lo, hi) ==
    IF lo > hi THEN -1
    ELSE LET mid == (lo + hi) \div 2
             current == tile_key(tiles[mid + 1])
         IN IF current = target THEN mid
            ELSE IF tuple_less(current, target) THEN find_tile(tiles, target, mid + 1, hi)
            ELSE find_tile(tiles, target, lo, mid - 1)

\* TDMAPReader.get_tile_data: found is FALSE for None
get_tile_data(r, d, zoom, x, y) ==
    LET at == find_tile(r.tiles, <<zoom, x, y>>, 0, Len(r.tiles) - 1)
    IN IF at < 0 THEN [found |-> FALSE, bytes |-> <<>>]
       ELSE [found |-> TRUE,
             bytes |-> file_read(d.bytes, r.tiles[at + 1].offset, r.tiles[at + 1].size)]

\* no get_tile_data call made yet
no_lookup == [key |-> <<>>, found |-> FALSE, bytes |-> <<>>]

\* verify_archive: True unless constructing the reader raises
verify_archive(d) == read_header(d).status = "ok"
----------------------------------------------------------------------------
(* pmtiles_to_tdmap.py: the tile plan, the worker and the Checkpoint       *)
(* A tile key is <<z, x, y>>; the "z/x/y" strings the checkpoint keeps are  *)
(* in one-to-one correspondence with the keys and are held as the keys.    *)
(* Bounds are held in tile units at the zoom of the plan, that is, after   *)
(* lat_lon_to_tile: <<x_min, y_min, x_max, y_max>>.  Latitudes and         *)
(* longitudes are held in units of 1e-7 degree.                            *)

\* int(v * 1_000_000) of a coordinate v held in 1e-7 degrees: int()
\* truncates toward zero
int_e6(v) == IF v >= 0 THEN v \div 10 ELSE -((-v) \div 10)

\* the dedup key of a label (l.1003-1005, l.766-768)
label_key(label) == <<label.text, int_e6(label.lat), int_e6(label.lon)>>

\* the (x, y) get_tiles_in_bounds yields: x ascending, y ascending within x
RECURSIVE tiles_in_rows(_, _, _, _)
tiles_in_rows(x, y, bounds, zoom) ==
    IF x > bounds[3] THEN <<>>
    ELSE IF y > bounds[4] THEN tiles_in_rows(x + 1, bounds[2], bounds, zoom)
    ELSE <<<<zoom, x, y>>>> \o tiles_in_rows(x, y + 1, bounds, zoom)

get_tiles_in_bounds(bounds, zoom) == tiles_in_rows(bounds[1], bounds[2], bounds, zoom)

\* the planned tiles of a run: every zoom of the range, ascending
RECURSIVE planned_tiles(_, _, _)
planned_tiles(bounds, z, max_zoom) ==
    IF z > max_zoom THEN <<>>
    ELSE get_tiles_in_bounds(bounds, z) \o planned_tiles(bounds, z + 1, max_zoom)

\* a worker that lets the error of a tile it cannot render out
process_tile_worker_raising(src, key) ==
    [status |-> IF src[key].payload = "unrenderable" THEN "raised" ELSE "ok",
     z |-> key[1], x |-> key[2], y |-> key[3],
     data |-> src[key].data, labels |-> src[key].labels]

\* _process_tile_worker((z, x, y)) on a PMTiles source: the result depends
\* on the tile alone.  A tile the reader does not have or cannot read is
\* missing (l.632-638); an exception of render_vector_tile,
\* process_tile_image or extract_labels makes it failed (l.656-657);
\* render_vector_tile and extract_labels catch the errors of decompress_tile
\* and mvt.decode themselves (l.194-202, l.435-439), so a malformed payload
\* comes back ok with the blank image and no label
process_tile_worker(src, key) ==
    [status |-> CASE src[key].payload = "absent" -> "missing"
                  [] src[key].payload = "unrenderable" -> "failed"
                  [] OTHER -> "ok",
     z |-> key[1], x |-> key[2], y |-> key[3],
     data |-> src[key].data, labels |-> src[key].labels]

new_stats == [processed |-> 0, missing |-> 0, failed |-> 0, labels_extracted |-> 0]

\* Checkpoint.__init__; None is the empty sequence, {} the empty sequence,
\* and _processed_set exists only after prepare_for_resume
new_checkpoint(save_interval) ==
    [save_interval |-> save_interval,
     data |-> [version |-> 2, processed_tiles |-> <<>>, labels |-> <<>>,
               seen_label_keys |-> <<>>, stats |-> new_stats,
               last_position |-> <<>>, config |-> <<>>, last_saved |-> ""],
     tiles_since_save |-> 0,
     processed_set |-> {}]

\* the checkpoint path with no file at it.  A file holds the object that
\* json.load gives; form tells what the text of the file is: "complete" as
\* json.dump of save() leaves it, "no_stats" a JSON object without the
\* "stats" member (data.stats is then not part of it), "invalid" no JSON
no_file == [exists |-> FALSE, form |-> "complete", data |-> new_checkpoint(0).data]

\* Checkpoint.load: json.load gives back the ints, strings and lists that
\* json.dump stored; tuples come back as lists, which sequences stand for.
\* json.load raises on a text that is no JSON, before self.data is
\* assigned; the print that follows the assignment raises KeyError when
\* the object has no "stats"; both are caught and make load return False
load(c, f) ==
    IF ~f.exists \/ f.form = "invalid" THEN [ok |-> FALSE, checkpoint |-> c]
    ELSE IF f.form = "no_stats"
    THEN [ok |-> FALSE, checkpoint |-> [c EXCEPT !.data = f.data]]
    ELSE [ok |-> TRUE, checkpoint |-> [c EXCEPT !.data = f.data]]

\* a save that writes nothing
save_nothing(c, f) == [checkpoint |-> c, file |-> f]

\* Checkpoint.save: stamps last_saved and rewrites the file
save(c, f) ==
    LET stamped == [c.data EXCEPT !.last_saved = "time"]
    IN [checkpoint |-> [c EXCEPT !.data = stamped, !.tiles_since_save = 0],
        file |-> [exists |-> TRUE, form |-> "complete", data |-> stamped]]

should_save(c) == c.tiles_since_save >= c.save_interval

mark_tile_processed(c, key) ==
    [c EXCEPT !.data.processed_tiles = Append(@, key),
              !.data.last_position = key,
              !.data.stats.processed = @ + 1,
              !.tiles_since_save = @ + 1]

mark_tile_missing(c) ==
    [c EXCEPT !.data.stats.missing = @ + 1, !.tiles_since_save = @ + 1]

mark_tile_failed(c) ==
    [c EXCEPT !.data.stats.failed = @ + 1, !.tiles_since_save = @ + 1]

\* a lookup that finds no tile processed
is_tile_processed_never(c, key) == FALSE

is_tile_processed(c, key) == key \in c.processed_set

\* Checkpoint.add_label
checkpoint_add_label(c, label) ==
    [c EXCEPT !.data.labels = Append(@, label),
              !.data.seen_label_keys = Append(@, label_key(label)),
              !.data.stats.labels_extracted = @ + 1]

get_seen_labels(c) ==
    {c.data.seen_label_keys[i] : i \in 1..Len(c.data.seen_label_keys)}

prepare_for_resume(c) ==
    [c EXCEPT !.processed_set =
        {c.data.processed_tiles[i] : i \in 1..Len(c.data.processed_tiles)}]

set_config(c, bounds, zoom_range) ==
    [c EXCEPT !.data.config = <<bounds, zoom_range>>]

\* a validation that takes any stored configuration
validate_config_any(c, bounds, zoom_range) == TRUE

validate_config(c, bounds, zoom_range) ==
    c.data.config = <<bounds, zoom_range>>

\* Checkpoint.delete
delete(f) == IF f.exists THEN no_file ELSE f

\* the six positional arguments convert_pmtiles passes to writer.add_label
\* (l.927-934, l.1008-1015)
label_args(label) ==
    <<label.lat, label.lon, label.zoom_min, label.zoom_max, label.label_type,
      label.text>>

\* the re-adding of the checkpoint's labels to a fresh writer on resume
\* (l.926-934); stops at the first call that raises
RECURSIVE readd_labels(_, _, _)
readd_labels(w, labels, i) ==
    IF i > Len(labels) THEN [writer |-> w, raised |-> ""]
    ELSE LET out == add_label(w, label_args(labels[i]))
         IN IF out.raised # "" THEN out
            ELSE readd_labels(out.writer, labels, i + 1)

\* tiles_to_process (l.949-953): the planned tiles not in the processed set
RECURSIVE unprocessed(_, _)
unprocessed(c, keys) ==
    IF keys = <<>> THEN <<>>
    ELSE IF is_tile_processed(c, Head(keys)) THEN unprocessed(c, Tail(keys))
    ELSE <<Head(keys)>> \o unprocessed(c, Tail(keys))

\* the coordinator's locals before convert_pmtiles is called
new_run ==
    [pc |-> "idle", starts |-> 0, bounds |-> <<>>, zoom_range |-> <<>>,
     resuming |-> FALSE, processed |-> 0, missing |-> 0, failed |-> 0,
     labels_extracted |-> 0, seen_labels |-> {}, skipped |-> 0,
     tiles_to_process |-> <<>>, pending |-> {}, result |-> <<>>,
     label_i |-> 0, exit_code |-> -1, ended |-> <<>>, resume |-> FALSE]

----------------------------------------------------------------------------
(* Specification SpecArchive: a client adds tiles and labels to a          *)
(* TDMAPWriter, calls write() once, then opens a TDMAPReader on the file   *)
(* and runs verify_archive on it                                           *)

\* the add_tile calls of the client: (zoom, x, y, data); a call may be
\* made again, which repeats its key
TileCalls ==
    { <<5, 10, 12, <<65, 66, 67>> >>, <<5, 10, 13, <<68, 69>> >>,
      <<4, 3, 1, <<>> >> }

\* the add_label calls of the client: (zoom_min, zoom_max, tile_x, tile_y,
\* pixel_x, pixel_y, label_type, text[, extraction_zoom]); the first text
\* has a leading blank and a two-byte code point, the second call leaves
\* extraction_zoom to its default, the third text is blank, the last label
\* is in the tile of the first and shows from a lower zoom
LabelCalls ==
    { <<9, 14, 10, 12, 200, 3, 1, <<32, 233>>, 5>>,
      <<6, 14, 3, 1, 0, 255, 5, <<67>> >>,
      <<11, 14, 3, 1, 1, 1, 2, <<32, 32>> >>,
      <<7, 14, 10, 12, 1, 2, 3, <<66>>, 5>> }

\* the keys get_tile_data is asked for: those of TileCalls and one more
LookupKeys == {<<c[1], c[2], c[3]>> : c \in TileCalls} \cup {<<5, 10, 14>>}

CodecIdle ==
    /\ data = <<>>
    /\ compressed = <<>>
    /\ restored = <<>>
    /\ indices = <<>>
    /\ packed = <<>>

ArchiveIdle ==
    /\ writer = new_writer
    /\ calls = [tiles |-> <<>>, labels |-> <<>>]
    /\ disk = [exists |-> FALSE, bytes |-> <<>>]
    /\ raised = ""
    /\ reader = new_reader
    /\ verified = "none"
    /\ lookup = no_lookup

ConvertIdle ==
    /\ source = <<>>
    /\ checkpoint_interval = 0
    /\ run = new_run
    /\ checkpoint = new_checkpoint(0)
    /\ ckfile = no_file

\* what output_path may hold before write() opens it: nothing, or a file
\* that an earlier program left there
OutputPaths ==
    {[exists |-> FALSE, bytes |-> <<>>], [exists |-> TRUE, bytes |-> <<84, 68, 77>>]}

InitArchive ==
    /\ pc = "adding"
    /\ CodecIdle
    /\ writer = new_writer
    /\ calls = [tiles |-> <<>>, labels |-> <<>>]
    /\ disk \in OutputPaths
    /\ raised = ""
    /\ reader = new_reader
    /\ verified = "none"
    /\ lookup = no_lookup
    /\ ConvertIdle

AddTile(c) ==
    /\ pc = "adding"
    /\ Len(writer.tiles) < MaxTiles
    /\ writer' = add_tile(writer, c[1], c[2], c[3], c[4])
    /\ calls' = [calls EXCEPT !.tiles = Append(@, c)]
    /\ raised' = ""
    /\ UNCHANGED <<pc, disk, reader, verified, codec_vars, lookup, convert_vars>>

AddLabel(args) ==
    /\ pc = "adding"
    /\ Len(calls.labels) < MaxLabels
    /\ LET out == add_label(writer, args)
       IN /\ writer' = out.writer
          /\ raised' = out.raised
    /\ calls' = [calls EXCEPT !.labels = Append(@, args)]
    /\ UNCHANGED <<pc, disk, reader, verified, codec_vars, lookup, convert_vars>>

\* a write() that opens output_path before it looks at self.tiles
Write_open_first ==
    /\ pc = "adding"
    /\ LET out == write(writer, disk)
       IN /\ writer' = out.writer
          /\ disk' = IF out.raised = "ValueError"
                     THEN [exists |-> TRUE, bytes |-> <<>>]
                     ELSE out.disk
          /\ raised' = out.raised
          /\ pc' = IF out.raised = "" THEN "written" ELSE "write_failed"
    /\ UNCHANGED <<calls, reader, verified, codec_vars, lookup, convert_vars>>

Write ==
    /\ pc = "adding"
    /\ LET out == write(writer, disk)
       IN /\ writer' = out.writer
          /\ disk' = out.disk
          /\ raised' = out.raised
          /\ pc' = IF out.raised = "" THEN "written" ELSE "write_failed"
    /\ UNCHANGED <<calls, reader, verified, codec_vars, lookup, convert_vars>>

OpenReader ==
    /\ pc \in {"written", "write_failed"}
    /\ reader.status = "none"
    /\ LET out == read_header(disk)
       IN /\ reader' = out
          /\ raised' = out.error
    /\ UNCHANGED <<pc, writer, calls, disk, verified, codec_vars, lookup, convert_vars>>

Verify ==
    /\ pc \in {"written", "write_failed"}
    /\ verified = "none"
    /\ verified' = IF verify_archive(disk) THEN "True" ELSE "False"
    /\ raised' = ""
    /\ UNCHANGED <<pc, writer, calls, disk, reader, codec_vars, lookup, convert_vars>>

NextArchive ==
    \/ \E c \in TileCalls : AddTile(c)
    \/ \E args \in LabelCalls : AddLabel(args)
    \/ Write
    \/ OpenReader
    \/ Verify

SpecArchive == InitArchive /\ [][NextArchive]_vars

----------------------------------------------------------------------------
(* Specification SpecRle: rle_compress then rle_decompress on one input    *)

RleInputs == {Expand(r) : r \in SeqsUpTo(ByteVals \X RunLens, MaxRuns)}

InitRle ==
    /\ pc = "rle_input"
    /\ data \in RleInputs
    /\ compressed = <<>>
    /\ restored = <<>>
    /\ indices = <<>>
    /\ packed = <<>>
    /\ ArchiveIdle
    /\ ConvertIdle

Compress ==
    /\ pc = "rle_input"
    /\ compressed' = rle_compress(data)
    /\ pc' = "rle_compressed"
    /\ UNCHANGED <<data, restored, indices, packed, archive_vars, convert_vars>>

Decompress ==
    /\ pc = "rle_compressed"
    /\ restored' = rle_decompress(compressed)
    /\ pc' = "rle_restored"
    /\ UNCHANGED <<data, compressed, indices, packed, archive_vars, convert_vars>>

NextRle == Compress \/ Decompress

SpecRle == InitRle /\ [][NextRle]_vars

----------------------------------------------------------------------------
(* Specification SpecPack: pack_3bit_pixels on one input                   *)

InitPack ==
    /\ pc = "pack_input"
    /\ indices \in SeqsUpTo(PixVals, MaxPix)
    /\ packed = <<>>
    /\ data = <<>>
    /\ compressed = <<>>
    /\ restored = <<>>
    /\ ArchiveIdle
    /\ ConvertIdle

Pack ==
    /\ pc = "pack_input"
    /\ packed' = pack_3bit_pixels(indices)
    /\ pc' = "packed"
    /\ UNCHANGED <<data, compressed, restored, indices, archive_vars, convert_vars>>

NextPack == Pack

SpecPack == InitPack /\ [][NextPack]_vars

----------------------------------------------------------------------------
(* Specification SpecConvert: convert_pmtiles is run on a PMTiles source,  *)
(* its worker results arrive in any order, the run may be interrupted      *)
(* while it drains them, and it may be run again on the same source        *)

\* zoom range of the runs and the two regions they are asked for, the
\* second inside the first
ZoomRange == <<5, 5>>
FullBounds == <<10, 12, 10, 12 + MaxPlan - 1>>
SmallBounds == <<10, 12, 10, 12>>
RunBounds == {FullBounds, SmallBounds}

\* two labels with different coordinates and the same dedup key
LabelA == [lat |-> 15, lon |-> -27, zoom_min |-> 6, zoom_max |-> 14,
           label_type |-> 0, text |-> <<65>>]
LabelB == [lat |-> 19, lon |-> -21, zoom_min |-> 6, zoom_max |-> 14,
           label_type |-> 0, text |-> <<65>>]

\* the tiles a source can hold at a key: what its payload is, and what
\* process_tile_image (l.684-687) and extract_labels give for it.  The
\* image of a malformed payload is the blank one of render_vector_tile
\* (l.198-202), every pixel F.WATER
Outcomes ==
    { [payload |-> "valid", data |-> rle_compress(pack_3bit_pixels(<<5, 5, 7>>)),
       labels |-> <<>>],
      [payload |-> "valid", data |-> rle_compress(pack_3bit_pixels(<<>>)),
       labels |-> <<LabelA, LabelB>>],
      [payload |-> "absent", data |-> <<>>, labels |-> <<>>],
      [payload |-> "unrenderable", data |-> <<>>, labels |-> <<>>],
      [payload |-> "malformed", data |-> rle_compress(pack_3bit_pixels(<<1, 1, 1>>)),
       labels |-> <<>>] }

\* checkpoint_interval arguments
Intervals == {1, 2}

SourceKeys == {t[i] : i \in 1..MaxPlan, t \in {planned_tiles(FullBounds, ZoomRange[1], ZoomRange[2])}}

\* a checkpoint file of the version-1 format, left by an earlier build of
\* FullBounds that had processed the first tile of the plan
old_file ==
    [exists |-> TRUE, form |-> "complete",
     data |-> [new_checkpoint(0).data EXCEPT
                  !.version = 1,
                  !.processed_tiles = <<planned_tiles(FullBounds, ZoomRange[1], ZoomRange[2])[1]>>,
                  !.stats.processed = 1,
                  !.config = <<FullBounds, ZoomRange>>,
                  !.last_saved = "time"]]

InitConvert ==
    /\ pc = "convert"
    /\ CodecIdle
    /\ ArchiveIdle
    /\ source \in [SourceKeys -> Outcomes]
    /\ checkpoint_interval \in Intervals
    /\ run = new_run
    /\ checkpoint = new_checkpoint(0)
    /\ ckfile \in {no_file, old_file}

\* convert_pmtiles up to the start of the pool (l.838-958)
StartRun(resume, bounds) ==
    /\ pc = "convert"
    /\ run.pc \in {"idle", "interrupted", "crashed", "done"}
    /\ run.starts < MaxStarts
    /\ LET zoom_range == ZoomRange
           fresh == new_checkpoint(checkpoint_interval)
           loaded == IF resume THEN load(fresh, ckfile)
                     ELSE [ok |-> FALSE, checkpoint |-> fresh]
           valid == loaded.ok /\ validate_config(loaded.checkpoint, bounds, zoom_range)
           c1 == IF valid THEN prepare_for_resume(loaded.checkpoint)
                 ELSE set_config(fresh, bounds, zoom_range)
           old == valid /\ c1.data.version < 2
           resuming == valid /\ ~old
           c2 == IF old THEN set_config(fresh, bounds, zoom_range) ELSE c1
           readd == IF resuming THEN readd_labels(new_writer, c2.data.labels, 1)
                    ELSE [writer |-> new_writer, raised |-> ""]
           c3 == IF resuming THEN c2 ELSE prepare_for_resume(c2)
           planned == planned_tiles(bounds, zoom_range[1], zoom_range[2])
           todo == unprocessed(c3, planned)
           begun == [new_run EXCEPT
                        !.starts = run.starts + 1,
                        !.bounds = bounds,
                        !.zoom_range = zoom_range,
                        !.resume = resume,
                        !.resuming = resuming,
                        !.ended = IF resuming THEN Append(run.ended, run.pc) ELSE <<>>]
       IN /\ writer' = readd.writer
          /\ raised' = readd.raised
          /\ checkpoint' = IF readd.raised # "" THEN c2 ELSE c3
          /\ run' = IF readd.raised # ""
                    THEN [begun EXCEPT !.pc = "crashed", !.exit_code = 1]
                    ELSE [begun EXCEPT
                            !.pc = IF todo = <<>> THEN "drained" ELSE "draining",
                            !.processed = IF resuming THEN c3.data.stats.processed ELSE 0,
                            !.missing = IF resuming THEN c3.data.stats.missing ELSE 0,
                            !.failed = IF resuming THEN c3.data.stats.failed ELSE 0,
                            !.labels_extracted =
                                IF resuming THEN c3.data.stats.labels_extracted ELSE 0,
                            !.seen_labels = IF resuming THEN get_seen_labels(c3) ELSE {},
                            !.skipped = Len(planned) - Len(todo),
                            !.tiles_to_process = todo,
                            !.pending = {todo[i] : i \in 1..Len(todo)}]
    /\ calls' = [tiles |-> <<>>, labels |-> <<>>]
    /\ UNCHANGED <<pc, codec_vars, lookup, disk, reader, verified, source,
                   checkpoint_interval, ckfile>>

\* where the result loop stands once a result is dealt with
after_result(pending) == IF pending = {} THEN "drained" ELSE "draining"

\* the next result of imap_unordered, whichever tile it is for, and the
\* branch of its status (l.982-998); the labels of an ok result follow
TakeResult(key) ==
    /\ pc = "convert"
    /\ run.pc = "draining"
    /\ key \in run.pending
    /\ LET result == process_tile_worker(source, key)
           rest == run.pending \ {key}
       IN CASE result.status = "missing" ->
                 /\ run' = [run EXCEPT !.missing = @ + 1, !.pending = rest,
                                       !.pc = after_result(rest)]
                 /\ checkpoint' = mark_tile_missing(checkpoint)
                 /\ UNCHANGED <<writer, calls>>
            [] result.status = "failed" ->
                 /\ run' = [run EXCEPT !.failed = @ + 1, !.pending = rest,
                                       !.pc = after_result(rest)]
                 /\ checkpoint' = mark_tile_failed(checkpoint)
                 /\ UNCHANGED <<writer, calls>>
            [] OTHER ->
                 /\ writer' = add_tile(writer, result.z, result.x, result.y, result.data)
                 /\ calls' = [calls EXCEPT !.tiles =
                                 Append(@, <<result.z, result.x, result.y, result.data>>)]
                 /\ run' = [run EXCEPT !.processed = @ + 1, !.pending = rest,
                                       !.pc = "labels", !.result = key, !.label_i = 1]
                 /\ checkpoint' = mark_tile_processed(checkpoint, key)
    /\ UNCHANGED <<pc, codec_vars, lookup, disk, raised, reader, verified, source,
                   checkpoint_interval, ckfile>>

\* one turn of the label loop of an ok result (l.1001-1017): a TypeError of
\* writer.add_label is not caught and ends the process
ApplyLabel ==
    /\ pc = "convert"
    /\ run.pc = "labels"
    /\ run.label_i <= Len(source[run.result].labels)
    /\ LET label == source[run.result].labels[run.label_i]
           out == add_label(writer, label_args(label))
       IN IF label_key(label) \in run.seen_labels
          THEN /\ run' = [run EXCEPT !.label_i = @ + 1]
               /\ UNCHANGED <<writer, calls, raised, checkpoint>>
          ELSE /\ calls' = [calls EXCEPT !.labels = Append(@, label_args(label))]
               /\ writer' = out.writer
               /\ raised' = out.raised
               /\ IF out.raised # ""
                  THEN /\ run' = [run EXCEPT !.seen_labels = @ \cup {label_key(label)},
                                             !.pc = "crashed", !.exit_code = 1]
                       /\ UNCHANGED checkpoint
                  ELSE /\ run' = [run EXCEPT !.seen_labels = @ \cup {label_key(label)},
                                             !.labels_extracted = @ + 1,
                                             !.label_i = @ + 1]
                       /\ checkpoint' = checkpoint_add_label(checkpoint, label)
    /\ UNCHANGED <<pc, codec_vars, lookup, disk, reader, verified, source,
                   checkpoint_interval, ckfile>>

\* the end of the ok branch: the periodic checkpoint save (l.1019-1022)
EndResult ==
    /\ pc = "convert"
    /\ run.pc = "labels"
    /\ run.label_i > Len(source[run.result].labels)
    /\ LET out == save(checkpoint, ckfile)
       IN IF should_save(checkpoint)
          THEN checkpoint' = out.checkpoint /\ ckfile' = out.file
          ELSE UNCHANGED <<checkpoint, ckfile>>
    /\ run' = [run EXCEPT !.pc = after_result(run.pending), !.result = <<>>,
                          !.label_i = 0]
    /\ UNCHANGED <<pc, codec_vars, archive_vars, source, checkpoint_interval>>

\* KeyboardInterrupt while the results are drained (l.1041-1045)
Interrupt ==
    /\ pc = "convert"
    /\ run.pc \in {"draining", "labels"}
    /\ LET out == save(checkpoint, ckfile)
       IN checkpoint' = out.checkpoint /\ ckfile' = out.file
    /\ run' = [run EXCEPT !.pc = "interrupted", !.exit_code = 1]
    /\ UNCHANGED <<pc, codec_vars, archive_vars, source, checkpoint_interval>>

\* the end of convert_pmtiles (l.1047-1054): write, verify, delete the
\* checkpoint; a ValueError of write() is not caught
Finish ==
    /\ pc = "convert"
    /\ run.pc = "drained"
    /\ LET out == write(writer, disk)
       IN /\ writer' = out.writer
          /\ disk' = out.disk
          /\ raised' = out.raised
          /\ IF out.raised # ""
             THEN /\ run' = [run EXCEPT !.pc = "crashed", !.exit_code = 1]
                  /\ UNCHANGED <<verified, ckfile>>
             ELSE /\ run' = [run EXCEPT !.pc = "done", !.exit_code = 0]
                  /\ verified' = IF verify_archive(out.disk) THEN "True" ELSE "False"
                  /\ ckfile' = delete(ckfile)
    /\ UNCHANGED <<pc, codec_vars, lookup, calls, reader, source, checkpoint_interval,
                   checkpoint>>

NextConvert ==
    \/ \E resume \in BOOLEAN, bounds \in RunBounds : StartRun(resume, bounds)
    \/ \E key \in SourceKeys : TakeResult(key)
    \/ ApplyLabel
    \/ EndResult
    \/ Interrupt
    \/ Finish

SpecConvert == InitConvert /\ [][NextConvert]_vars

----------------------------------------------------------------------------
(* Specification SpecFile: an archive file of any supported or unsupported *)
(* version, laid out as write() lays it out, is left whole, cut short or   *)
(* given another magic, and is then opened with TDMAPReader and passed to  *)
(* verify_archive                                                          *)

\* the version bytes of the files given to the reader
FileVersions == {1, 2, 3, 4}

\* the writers the files come from: one tile; two tiles and a label; one
\* tile and two labels of different tiles
FileWriters ==
    LET c == <<5, 10, 12, <<65, 66, 67>> >>
        e == <<5, 10, 13, <<68, 69>> >>
        g == <<4, 3, 1, <<>> >>
        l1 == <<9, 14, 10, 12, 200, 3, 1, <<32, 233>>, 5>>
        l2 == <<6, 14, 3, 1, 0, 255, 5, <<67>> >>
        t1 == add_tile(new_writer, c[1], c[2], c[3], c[4])
        t2 == add_tile(t1, e[1], e[2], e[3], e[4])
        t3 == add_tile(new_writer, g[1], g[2], g[3], g[4])
    IN {t1, add_label(t2, l1).writer, add_label(add_label(t3, l1).writer, l2).writer}

\* bytes a damaged magic gets in place of one of its own
MagicDamage == {0, 88}

InitFile ==
    /\ pc = "given"
    /\ CodecIdle
    /\ ConvertIdle
    /\ calls = [tiles |-> <<>>, labels |-> <<>>]
    /\ raised = ""
    /\ reader = new_reader
    /\ verified = "none"
    /\ lookup = no_lookup
    /\ \E w \in FileWriters, version \in FileVersions :
          LET out == write_as(w, [exists |-> FALSE, bytes |-> <<>>], version)
          IN writer = out.writer /\ disk = out.disk

\* the file loses everything from byte n on
Truncate(n) ==
    /\ pc = "given"
    /\ n \in 0..(Len(disk.bytes) - 1)
    /\ disk' = [disk EXCEPT !.bytes = SubSeq(@, 1, n)]
    /\ pc' = "truncated"
    /\ UNCHANGED <<writer, calls, raised, reader, verified, codec_vars, lookup, convert_vars>>

\* byte i of the magic is overwritten
DamageMagic(i, v) ==
    /\ pc = "given"
    /\ disk.bytes[i] # v
    /\ disk' = [disk EXCEPT !.bytes[i] = v]
    /\ pc' = "damaged"
    /\ UNCHANGED <<writer, calls, raised, reader, verified, codec_vars, lookup, convert_vars>>

\* TDMAPReader(path) on the file as it now is
OpenFile ==
    /\ pc \in {"given", "truncated", "damaged"}
    /\ LET out == read_header(disk)
       IN /\ reader' = out
          /\ raised' = out.error
    /\ pc' = "opened_" \o pc
    /\ UNCHANGED <<writer, calls, disk, verified, codec_vars, lookup, convert_vars>>

\* verify_archive(path) on the file that was opened
VerifyFile ==
    /\ pc \in {"opened_given", "opened_truncated", "opened_damaged"}
    /\ verified = "none"
    /\ verified' = IF verify_archive(disk) THEN "True" ELSE "False"
    /\ UNCHANGED <<pc, writer, calls, disk, raised, reader, codec_vars, lookup, convert_vars>>

NextFile ==
    \/ \E n \in 0..(Len(disk.bytes) - 1) : Truncate(n)
    \/ \E i \in 1..6, v \in MagicDamage : DamageMagic(i, v)
    \/ OpenFile
    \/ VerifyFile

SpecFile == InitFile /\ [][NextFile]_vars

----------------------------------------------------------------------------
(* Specification SpecLookup: a version-3 archive without labels, holding   *)
(* any of MaxIndex tiles (none of them included), is opened and            *)
(* get_tile_data is called once, for a key it holds or for one it lacks    *)

\* the key of the i-th tile: zooms, then x, then y tell the keys apart, and
\* the keys do not ascend with i
IndexKey(i) == <<4 + (i \div 2), (i * 7) % 5, 12 - i>>

\* the payload of the i-th tile: as many bytes as its x, each its y
IndexData(i) == Repeat(IndexKey(i)[3], IndexKey(i)[2])

\* the keys asked for: those of the tiles and, for each, the key one row on
ProbeKeys ==
    {IndexKey(i) : i \in 1..MaxIndex}
        \cup {<<IndexKey(i)[1], IndexKey(i)[2], IndexKey(i)[3] + 1>> : i \in 1..MaxIndex}

\* the writer after add_tile for the tiles of S among the first i, in the
\* order of their numbers
RECURSIVE index_writer(_, _)
index_writer(S, i) ==
    IF i = 0 THEN new_writer
    ELSE IF i \in S
         THEN add_tile(index_writer(S, i - 1), IndexKey(i)[1], IndexKey(i)[2],
                       IndexKey(i)[3], IndexData(i))
         ELSE index_writer(S, i - 1)

\* an archive file of version 3 with no tile and no label: a header that
\* declares tile_count 0, and the palette
empty_archive ==
    [exists |-> TRUE,
     bytes |-> struct_pack(HEADER_FORMAT,
                   <<MAGIC, 3, COMPRESSION_RLE, TILE_SIZE, Len(PALETTE_RGB565), 0,
                     HEADER_SIZE + PALETTE_SIZE, HEADER_SIZE + PALETTE_SIZE, 255, 0,
                     HEADER_SIZE + PALETTE_SIZE, 0>>).bytes
               \o struct_pack(PALETTE_FORMAT, PALETTE_RGB565).bytes]

InitLookup ==
    /\ pc = "lookup"
    /\ CodecIdle
    /\ ConvertIdle
    /\ calls = [tiles |-> <<>>, labels |-> <<>>]
    /\ raised = ""
    /\ verified = "none"
    /\ lookup = no_lookup
    /\ \E S \in SUBSET (1..MaxIndex) :
          LET out == write_as(index_writer(S, MaxIndex),
                              [exists |-> FALSE, bytes |-> <<>>], 3)
          IN /\ writer = out.writer
             /\ disk = IF S = {} THEN empty_archive ELSE out.disk
    /\ reader = read_header(disk)

\* reader.get_tile_data(zoom, x, y)
GetTile(key) ==
    /\ pc = "lookup"
    /\ reader.status = "ok"
    /\ LET out == get_tile_data(reader, disk, key[1], key[2], key[3])
       IN lookup' = [key |-> key, found |-> out.found, bytes |-> out.bytes]
    /\ pc' = "looked_up"
    /\ UNCHANGED <<writer, calls, disk, raised, reader, verified, codec_vars,
                   convert_vars>>

NextLookup == \E key \in ProbeKeys : GetTile(key)

SpecLookup == InitLookup /\ [][NextLookup]_vars

----------------------------------------------------------------------------
(* Specification SpecLoad: Checkpoint(path, save_interval).load() with     *)
(* nothing, a checkpoint of an earlier build, a JSON object that lacks     *)
(* "stats", or a text that is no JSON at the checkpoint path               *)

\* the files at the checkpoint path: their text, their version, their
\* processed tiles; the stats agree with the tiles
LoadFiles ==
    {no_file} \cup
    { [exists |-> TRUE, form |-> form,
       data |-> [new_checkpoint(0).data EXCEPT
                    !.version = version,
                    !.processed_tiles = tiles,
                    !.stats.processed = Len(tiles),
                    !.config = <<FullBounds, ZoomRange>>,
                    !.last_saved = "time"]] :
      form \in {"complete", "no_stats", "invalid"}, version \in {1, 2},
      tiles \in SeqsUpTo(SourceKeys, MaxPlan) }

InitLoad ==
    /\ pc = "load"
    /\ CodecIdle
    /\ ArchiveIdle
    /\ source = <<>>
    /\ run = new_run
    /\ checkpoint_interval \in Intervals
    /\ checkpoint = new_checkpoint(checkpoint_interval)
    /\ ckfile \in LoadFiles

\* checkpoint.load()
Load ==
    /\ pc = "load"
    /\ LET out == load(checkpoint, ckfile)
       IN /\ checkpoint' = out.checkpoint
          /\ pc' = IF out.ok THEN "loaded" ELSE "load_failed"
    /\ UNCHANGED <<codec_vars, archive_vars, source, checkpoint_interval, run, ckfile>>

NextLoad == Load

SpecLoad == InitLoad /\ [][NextLoad]_vars

----------------------------------------------------------------------------
(* C1: for every byte sequence x, including the empty one, sequences with  *)
(* 0xFF and runs longer than 255 bytes, rle_decompress(rle_compress(x))    *)
(* equals x.                                                               *)
RleRoundTrip == pc = "rle_restored" => restored = data

\* a round trip of an input that holds a run longer than 255 bytes, a
\* single 0xFF and a literal byte
RleRoundTripWitness ==
    /\ pc = "rle_restored"
    /\ Len(data) > 255
    /\ \E i \in 1..Len(data) :
          /\ data[i] = 255
          /\ (i > 1 => data[i - 1] # 255)
          /\ (i < Len(data) => data[i + 1] # 255)
    /\ \E i \in 1..(Len(data) - 255) :
          \A k \in 0..255 : data[i + k] = data[i]
    /\ restored = data

----------------------------------------------------------------------------
\* ceil(n / 8)
Groups(n) == (n + 7) \div 8

\* value j (counted from 0) of a packed byte string: the 3 bits at bit
\* positions 3k..3k+2, k = j mod 8, of group j div 8 taken as a 24-bit
\* little-endian integer
Unpacked(bytes, j) ==
    LET g == j \div 8
        word == bytes[3 * g + 1] + 256 * bytes[3 * g + 2] + 65536 * bytes[3 * g + 3]
    IN (word \div Pow2(3 * (j % 8))) % 8

(* C2: for every sequence s of values in 0..7, pack_3bit_pixels(s) has     *)
(* length 3*ceil(len(s)/8), and reading the values back from the 24-bit    *)
(* little-endian groups gives s followed by zeros up to a multiple of 8.   *)
PackLayout ==
    pc = "packed" =>
        /\ Len(packed) = 3 * Groups(Len(indices))
        /\ \A b \in 1..Len(packed) : packed[b] \in 0..255
        /\ \A j \in 0..(8 * Groups(Len(indices)) - 1) :
              Unpacked(packed, j) = IF j < Len(indices) THEN indices[j + 1] ELSE 0

\* nine values: a full group whose values straddle the byte borders, and a
\* second group padded with seven zeros
PackLayoutWitness ==
    /\ pc = "packed"
    /\ Len(indices) = 9
    /\ indices[3] = 5
    /\ indices[6] = 7
    /\ indices[9] = 5
    /\ Len(packed) = 6

----------------------------------------------------------------------------
(* The written archive, as its bytes tell                                  *)

\* the twelve header fields of the file on disk
FileHeader == struct_unpack(HEADER_FORMAT, file_read(disk.bytes, 0, HEADER_SIZE)).vals

\* the persisted tile index: tile_count entries from tile_index_offset on
FileIndex ==
    LET header == FileHeader
    IN read_tile_index(disk.bytes, header[7], header[6], <<>>).tiles

\* write() has returned and left an archive on disk
Written == pc = "written"

\* how often x occurs in a sequence
Count(seq, x) == Cardinality({i \in 1..Len(seq) : seq[i] = x})

\* the add_tile calls made had pairwise distinct (zoom, x, y)
DistinctTileCalls ==
    \A i, j \in 1..Len(calls.tiles) :
        i # j => <<calls.tiles[i][1], calls.tiles[i][2], calls.tiles[i][3]>>
                 # <<calls.tiles[j][1], calls.tiles[j][2], calls.tiles[j][3]>>

\* what get_tile_data has to return for a key: the bytes added under it
Expected(key) ==
    IF \E i \in 1..Len(calls.tiles) :
          <<calls.tiles[i][1], calls.tiles[i][2], calls.tiles[i][3]>> = key
    THEN [found |-> TRUE,
          bytes |-> (CHOOSE c \in {calls.tiles[i] : i \in 1..Len(calls.tiles)} :
                        <<c[1], c[2], c[3]>> = key)[4]]
    ELSE [found |-> FALSE, bytes |-> <<>>]

(* C3: after add_tile calls with pairwise distinct (zoom,x,y) and write(),  *)
(* a TDMAPReader opened on the file returns from get_tile_data the bytes   *)
(* added for every inserted key and None for every other key.              *)
TileRoundTrip ==
    (Written /\ DistinctTileCalls /\ reader.status # "none") =>
        /\ reader.status = "ok"
        /\ \A key \in LookupKeys :
              get_tile_data(reader, disk, key[1], key[2], key[3]) = Expected(key)

(* C4: after writing tiles and labels and opening the file with            *)
(* TDMAPReader, the reader's label list holds exactly the labels that were *)
(* added, with the same field values, none lost and none duplicated.       *)
LabelRoundTrip ==
    (Written /\ reader.status # "none") =>
        /\ reader.status = "ok"
        /\ Len(reader.labels) = Len(calls.labels)
        /\ \A i \in 1..Len(calls.labels) :
              LET l == LabelEntry(calls.labels[i], calls.labels[i][8])
              IN Count(reader.labels, l)
                 = Count([k \in 1..Len(calls.labels) |->
                             LabelEntry(calls.labels[k], calls.labels[k][8])], l)

(* C5: every archive write() produces carries a format version the reader  *)
(* supports: constructing a TDMAPReader on it raises no error and          *)
(* verify_archive returns True for it.                                     *)
WrittenVersionSupported ==
    Written =>
        /\ FileHeader[2] \in READER_VERSIONS
        /\ reader.status # "none" => reader.status = "ok"
        /\ verified # "none" => verified = "True"

(* C8: after write(), the persisted tile index is sorted ascending by      *)
(* (zoom, x, y), whatever the order of the add_tile calls.                 *)
IndexSorted ==
    Written =>
        LET index == FileIndex
        IN /\ Len(index) = Len(calls.tiles)
           /\ \A i \in 1..(Len(index) - 1) :
                 ~tuple_less(tile_key(index[i + 1]), tile_key(index[i]))

\* three tiles added in descending key order and written
IndexSortedWitness ==
    /\ Written
    /\ Len(calls.tiles) = 3
    /\ \A i \in 1..2 :
          tuple_less(<<calls.tiles[i + 1][1], calls.tiles[i + 1][2], calls.tiles[i + 1][3]>>,
                     <<calls.tiles[i][1], calls.tiles[i][2], calls.tiles[i][3]>>)
    /\ LET index == FileIndex
       IN tuple_less(tile_key(index[1]), tile_key(index[3]))

(* C9: in a written archive with N tiles the tile index starts at byte 49, *)
(* tile_data_offset = 49 + 11*N, the first entry's offset is               *)
(* tile_data_offset, every following entry's offset is the previous        *)
(* entry's offset plus its size, every size is the length of the payload   *)
(* found there, and the label section starts right after the last payload. *)
OffsetsContiguous ==
    Written =>
        LET N == Len(writer.tiles)
            header == FileHeader
            index == read_tile_index(disk.bytes, header[7], header[6], <<>>).tiles
        IN /\ header[6] = N
           /\ Len(index) = N
           /\ header[7] = 49
           /\ header[8] = 49 + 11 * N
           /\ index[1].offset = header[8]
           /\ \A i \in 2..N :
                 index[i].offset = index[i - 1].offset + index[i - 1].size
           /\ \A i \in 1..N :
                 /\ index[i].size = Len(writer.tiles[i].data)
                 /\ file_read(disk.bytes, index[i].offset, index[i].size)
                    = writer.tiles[i].data
           /\ header[11] = index[N].offset + index[N].size

\* three tiles with payloads of 3, 2 and 0 bytes and a label, written
OffsetsContiguousWitness ==
    /\ Written
    /\ Len(writer.labels) > 0
    /\ LET header == FileHeader
           index == read_tile_index(disk.bytes, header[7], header[6], <<>>).tiles
       IN /\ Len(index) = 3
          /\ {index[i].size : i \in 1..3} = {0, 2, 3}
          /\ header[11] = 49 + 33 + 5

(* C10: in every written archive the header's tile_count is the number of  *)
(* tile index entries and the header's label_count is the number of label  *)
(* records stored in the label data.                                       *)
HeaderCounts ==
    Written =>
        LET header == FileHeader
        IN /\ header[6] = Len(writer.tiles)
           /\ header[8] - header[7] = INDEX_ENTRY_SIZE * header[6]
           /\ header[12] = Len(writer.labels)

----------------------------------------------------------------------------
(* Interrupted and resumed builds                                          *)

\* the writer of a run over the given tiles that no interrupt and no label
\* stops: the ok results added, here in plan order
RECURSIVE add_ok_tiles(_, _, _)
add_ok_tiles(w, src, keys) ==
    IF keys = <<>> THEN w
    ELSE LET r == process_tile_worker(src, Head(keys))
         IN add_ok_tiles(IF r.status = "ok" THEN add_tile(w, r.z, r.x, r.y, r.data) ELSE w,
                         src, Tail(keys))

\* the planned tiles of the current run
Planned == planned_tiles(run.bounds, run.zoom_range[1], run.zoom_range[2])

\* no planned tile of the current run carries a label
NoPlannedLabels == \A i \in 1..Len(Planned) : source[Planned[i]].labels = <<>>

\* what an uninterrupted run over the planned tiles writes
UninterruptedWrite ==
    write(add_ok_tiles(new_writer, source, Planned), [exists |-> FALSE, bytes |-> <<>>])

\* the current run resumed a build whose earlier runs were all interrupted
ResumedAfterInterrupt ==
    /\ run.resuming
    /\ Len(run.ended) >= 1
    /\ \A i \in 1..Len(run.ended) : run.ended[i] = "interrupted"

(* C6: a build interrupted after K tile results and resumed with the same  *)
(* bounds and zoom range ends with the same archive as an uninterrupted    *)
(* run over the same input: whenever the uninterrupted run writes an       *)
(* archive, the resumed run ends by writing that very file.                *)
ResumeSameArchive ==
    (/\ pc = "convert"
     /\ ResumedAfterInterrupt
     /\ run.pc \in {"done", "crashed"}
     /\ NoPlannedLabels
     /\ UninterruptedWrite.raised = "")
    => /\ run.pc = "done"
       /\ disk = UninterruptedWrite.disk

\* a resumed run that ended after an interrupt that came when exactly one
\* ok tile had been applied and another was still to come
ResumeSameArchiveWitness ==
    /\ pc = "convert"
    /\ ResumedAfterInterrupt
    /\ run.pc = "done"
    /\ NoPlannedLabels
    /\ run.skipped = 1
    /\ Len(writer.tiles) = 1
    /\ Len(add_ok_tiles(new_writer, source, Planned).tiles) = 2

(* C7: in the result loop of one run, at most one label is handed to the   *)
(* writer and at most one to the checkpoint for each dedup key.            *)
OneLabelPerKey ==
    pc = "convert" =>
        /\ \A i, j \in 1..Len(calls.labels) :
              (calls.labels[i][6] = calls.labels[j][6]
               /\ int_e6(calls.labels[i][1]) = int_e6(calls.labels[j][1])
               /\ int_e6(calls.labels[i][2]) = int_e6(calls.labels[j][2])) => i = j
        /\ \A i, j \in 1..Len(checkpoint.data.labels) :
              label_key(checkpoint.data.labels[i]) = label_key(checkpoint.data.labels[j])
              => i = j

\* the result loop stands before a label whose key has been seen, the one
\* place where the dedup check turns a label away; no run gets there
SeenKeySkipped ==
    /\ pc = "convert"
    /\ run.pc = "labels"
    /\ run.label_i <= Len(source[run.result].labels)
    /\ label_key(source[run.result].labels[run.label_i]) \in run.seen_labels

\* no label that convert_pmtiles hands over is ever kept: the hand-over
\* raises TypeError, so neither the writer nor the checkpoint holds a label
NoLabelKept ==
    pc = "convert" => writer.labels = <<>> /\ checkpoint.data.labels = <<>>

----------------------------------------------------------------------------
\* C11: when the magic of the file differs from the archive magic, or its
\* version byte is not 1, 2 or 3, opening the file raises the ValueError of
\* that check with no tile index entry, label index entry or label loaded,
\* and verify_archive returns False
MagicOrVersionRejected ==
    LET h == struct_unpack(HEADER_FORMAT, file_read(disk.bytes, 0, HEADER_SIZE))
    IN (/\ pc \in {"opened_given", "opened_truncated", "opened_damaged"}
        /\ h.ok
        /\ (h.vals[1] # MAGIC \/ h.vals[2] \notin {1, 2, 3}))
       => /\ reader.status = "error"
          /\ reader.error \in {"ValueError: magic", "ValueError: version"}
          /\ raised = reader.error
          /\ reader.tiles = <<>>
          /\ reader.label_index = <<>>
          /\ reader.labels = <<>>
          /\ verified # "True"

\* a file with a damaged magic was opened and passed to verify_archive
MagicOrVersionRejectedWitness ==
    /\ pc = "opened_damaged"
    /\ reader.error = "ValueError: magic"
    /\ verified = "False"

\* C12: a reader that opened a file cut short without an error holds as
\* many tile entries as
\* the header's tile_count, and as many labels (version 2) or label index
\* entries (version 3) as the header's label count when the header places
\* the labels in the file
DeclaredCountsLoaded ==
    LET h == struct_unpack(HEADER_FORMAT, file_read(disk.bytes, 0, HEADER_SIZE))
        declared == IF h.vals[11] > 0 THEN h.vals[12] ELSE 0
    IN (pc = "opened_truncated" /\ reader.status = "ok")
       => /\ Len(reader.tiles) = h.vals[6]
          /\ (reader.version = 2 => Len(reader.labels) = declared)
          /\ (reader.version = 3 => Len(reader.label_index) = declared)

\* C13: when convert_pmtiles starts a run that resumes a loaded and
\* validated checkpoint, the list it hands to the workers is the planned
\* tiles of the bounds and zoom range, in plan order, without the tiles the
\* checkpoint file lists as processed; and no tile of the checkpoint's
\* processed set is pending in a resumed run
ResumeSkipsProcessed ==
    [][LET planned == planned_tiles(run'.bounds, run'.zoom_range[1], run'.zoom_range[2])
           done == {ckfile.data.processed_tiles[i] :
                       i \in 1..Len(ckfile.data.processed_tiles)}
       IN (run'.resuming /\ run'.pc \in {"draining", "drained", "labels"})
          => /\ run'.starts = run.starts + 1
                => /\ run'.tiles_to_process = SelectSeq(planned, LAMBDA k : k \notin done)
                   /\ run'.pending = {planned[i] : i \in 1..Len(planned)} \ done
             /\ run'.pending \cap checkpoint'.processed_set = {}
             /\ run'.pending \subseteq run.pending \/ run'.starts = run.starts + 1
      ]_vars

\* a resumed run that skipped a processed tile and has another to dispatch
ResumeSkipsProcessedWitness ==
    /\ run.resuming
    /\ run.pc = "draining"
    /\ run.skipped > 0
    /\ run.tiles_to_process # <<>>

InterruptSavesCheckpoint ==
    [][/\ (run.pc \in {"draining", "labels"} /\ run'.pc = "interrupted")
          => /\ ckfile'.exists
             /\ ckfile'.data = [checkpoint.data EXCEPT !.last_saved = "time"]
             /\ checkpoint'.data = ckfile'.data
             /\ run'.exit_code # 0
             /\ disk' = disk
             /\ writer' = writer
       /\ run.pc = "interrupted"
          => /\ run'.starts = run.starts + 1
             /\ ckfile' = ckfile
             /\ disk' = disk
      ]_vars

\* a run interrupted after it had applied an ok tile: the tile is in the
\* checkpoint file and there is no archive file
InterruptSavesCheckpointWitness ==
    /\ run.pc = "interrupted"
    /\ run.processed > 0
    /\ ckfile.exists
    /\ Len(ckfile.data.processed_tiles) = run.processed
    /\ ~disk.exists

\* C16: once a result, whatever its status, has been applied in full, fewer
\* tile outcomes than the checkpoint interval have been marked since the
\* last save of the checkpoint
SavedWithinInterval ==
    (pc = "convert" /\ run.pc \in {"draining", "drained"})
       => checkpoint.tiles_since_save < checkpoint.save_interval

MalformedRecordedFailed ==
    LET malformed == {key \in SourceKeys : source[key].payload = "malformed"}
        applied == {run.tiles_to_process[i] : i \in 1..Len(run.tiles_to_process)}
                       \ run.pending
    IN pc = "convert"
       => /\ \A i \in 1..Len(writer.tiles) : tile_key(writer.tiles[i]) \notin malformed
          /\ ~run.resuming => run.failed >= Cardinality(malformed \cap applied)

\* C19: the archive a run ends by writing is the one written from the ok
\* results of the tiles it dispatched, added in plan order: its index
\* entries and payload bytes are the same in whatever order the results
\* reached the coordinator
ArrivalOrderIrrelevant ==
    (pc = "convert" /\ run.pc = "done")
    => LET in_plan_order ==
               write(add_ok_tiles(new_writer, source, run.tiles_to_process),
                     [exists |-> FALSE, bytes |-> <<>>])
       IN /\ in_plan_order.raised = ""
          /\ disk = in_plan_order.disk

\* a run wrote its archive after two ok results that arrived against the
\* order of the plan
ArrivalOrderIrrelevantWitness ==
    /\ pc = "convert"
    /\ run.pc = "done"
    /\ Len(calls.tiles) = 2
    /\ tuple_less(<<calls.tiles[2][1], calls.tiles[2][2], calls.tiles[2][3]>>,
                  <<calls.tiles[1][1], calls.tiles[1][2], calls.tiles[1][3]>>)
    /\ calls.tiles[1][4] # calls.tiles[2][4]

\* C20: the file write() produced is the file it produces when the same
\* labels were added in the opposite order
LabelOrderIrrelevant ==
    (pc = "written" /\ Len(writer.labels) >= 2)
    => LET n == Len(writer.labels)
           reversed == [writer EXCEPT !.labels = [i \in 1..n |-> writer.labels[n + 1 - i]]]
       IN write(reversed, [exists |-> FALSE, bytes |-> <<>>]).disk = disk

----------------------------------------------------------------------------
\* the length of the maximal run of equal bytes that starts at d[i]
MaximalRun(d, i) ==
    CHOOSE n \in 1..(Len(d) - i + 1) :
       /\ (i + n <= Len(d) => d[i + n] # d[i])
       /\ \A k \in 0..(n - 1) : d[i + k] = d[i]

\* a chunk of n bytes of value b as the format writes it
ChunkForm(b, n) == IF n >= 3 \/ b = 255 THEN <<255, n, b>> ELSE Repeat(b, n)

\* a run of n bytes of value b, cut into chunks of at most 255
RECURSIVE RunForm(_, _)
RunForm(b, n) ==
    IF n = 0 THEN <<>>
    ELSE ChunkForm(b, Min(n, 255)) \o RunForm(b, n - Min(n, 255))

\* the maximal runs of d from d[i] on, each in its chunks
RECURSIVE RunsForm(_, _)
RunsForm(d, i) ==
    IF i > Len(d) THEN <<>>
    ELSE LET n == MaximalRun(d, i)
         IN RunForm(d[i], n) \o RunsForm(d, i + n)

\* c from c[i] on is a sequence of triplets with a count in 1..255 and of
\* literal bytes other than 0xFF
RECURSIVE TripletsAndLiterals(_, _)
TripletsAndLiterals(c, i) ==
    IF i > Len(c) THEN TRUE
    ELSE IF c[i] = 255
         THEN /\ i + 2 <= Len(c)
              /\ c[i + 1] \in 1..255
              /\ TripletsAndLiterals(c, i + 3)
         ELSE TripletsAndLiterals(c, i + 1)

OneEntryPerOkResult ==
    (pc = "convert" /\ run.pc = "done" /\ ~run.resuming)
    => LET planned == Planned
           keys == {planned[i] : i \in 1..Len(planned)}
           ok == {key \in keys : process_tile_worker(source, key).status = "ok"}
           index == FileIndex
       IN /\ Cardinality(keys) = Len(planned)
          /\ run.tiles_to_process = planned
          /\ run.processed + run.missing + run.failed = Len(planned)
          /\ run.processed = Cardinality(ok)
          /\ Len(calls.tiles) = Cardinality(ok)
          /\ {<<calls.tiles[i][1], calls.tiles[i][2], calls.tiles[i][3]>> :
                 i \in 1..Len(calls.tiles)} = ok
          /\ Len(writer.tiles) = Cardinality(ok)
          /\ Len(index) = Cardinality(ok)
          /\ {tile_key(index[i]) : i \in 1..Len(index)} = ok

\* a fresh run of the two-tile plan ended with both tiles in the archive
OneEntryPerOkResultWitness ==
    /\ pc = "convert"
    /\ run.pc = "done"
    /\ ~run.resuming
    /\ run.processed = 2
    /\ Len(Planned) = 2
    /\ disk.exists

\* C23: on a reader whose tile index is sorted ascending by (zoom, x, y)
\* with distinct keys, get_tile_data returns the bytes of the file from the
\* offset of the entry with the key asked for, as many as its size, which
\* are the bytes added under that key, and returns None when no entry has
\* the key
BinarySearchFinds ==
    LET tiles == reader.tiles
        sorted == \A i \in 1..(Len(tiles) - 1) :
                     tuple_less(tile_key(tiles[i]), tile_key(tiles[i + 1]))
        at == {i \in 1..Len(tiles) : tile_key(tiles[i]) = lookup.key}
    IN (pc = "looked_up" /\ sorted)
       => /\ at = {} => (~lookup.found /\ lookup.bytes = <<>>)
          /\ \A i \in at :
                /\ lookup.found
                /\ lookup.bytes = SubSeq(disk.bytes, tiles[i].offset + 1,
                                         tiles[i].offset + tiles[i].size)
                /\ \E n \in 1..MaxIndex :
                      IndexKey(n) = lookup.key /\ lookup.bytes = IndexData(n)

\* the last tile of a full index was looked up and found
BinarySearchFindsWitness ==
    /\ pc = "looked_up"
    /\ Len(reader.tiles) = MaxIndex
    /\ lookup.key = tile_key(reader.tiles[MaxIndex])
    /\ lookup.found
    /\ lookup.bytes # <<>>

\* C24: opening a version-3 archive as write() lays it out succeeds and
\* leaves in the reader one label for every label of the writer, with the
\* fields and text it was packed with and the tile of its index entry
EagerLabelsLoaded ==
    LET h == struct_unpack(HEADER_FORMAT, file_read(disk.bytes, 0, HEADER_SIZE))
    IN (pc = "opened_given" /\ h.vals[2] = 3)
       => /\ reader.status = "ok"
          /\ Len(reader.labels) = Len(writer.labels)
          /\ \A i \in 1..Len(writer.labels) :
                Count(reader.labels, writer.labels[i]) = Count(writer.labels, writer.labels[i])

\* C25: when a run ends with its final summary, the processed, missing and
\* failed counters add up to the number of planned tiles of its bounds and
\* zoom range, whether or not it resumed
CountersAddUp ==
    (pc = "convert" /\ run.pc = "done")
    => run.processed + run.missing + run.failed = Len(Planned)

\* C26: during a run, after prepare_for_resume, every tile that
\* mark_tile_processed has been called for is found by is_tile_processed
MarkedIsProcessed ==
    (pc = "convert" /\ run.pc \in {"draining", "labels", "drained"})
    => \A i \in 1..Len(checkpoint.data.processed_tiles) :
          is_tile_processed(checkpoint, checkpoint.data.processed_tiles[i])

\* C27: a checkpoint file written by a run of convert_pmtiles holds as many
\* processed tile keys as stats.processed, as many labels and as many dedup
\* keys as stats.labels_extracted, the dedup keys pairwise distinct, and,
\* for every label of every tile it lists as processed, a label of the
\* same dedup key
CheckpointFileConsistent ==
    (pc = "convert" /\ ckfile.exists /\ ckfile.data.version = 2)
    => LET d == ckfile.data
           keys == d.seen_label_keys
       IN /\ d.stats.processed = Len(d.processed_tiles)
          /\ Len(d.labels) = d.stats.labels_extracted
          /\ Len(keys) = d.stats.labels_extracted
          /\ \A i, j \in 1..Len(keys) : i # j => keys[i] # keys[j]
          /\ \A i \in 1..Len(d.processed_tiles) :
                LET labels == process_tile_worker(source, d.processed_tiles[i]).labels
                IN \A n \in 1..Len(labels) :
                      \E j \in 1..Len(d.labels) :
                         label_key(d.labels[j]) = label_key(labels[n])

\* C28: after Checkpoint.load() has returned False the checkpoint is as
\* Checkpoint.__init__ left it
FailedLoadKeepsFresh ==
    pc = "load_failed" => checkpoint = new_checkpoint(checkpoint_interval)

\* C29: write() on a writer that holds no tiles raises ValueError and
\* leaves the file at output_path (absent or present) and the writer as
\* they were
EmptyWriteTouchesNothing ==
    [][(pc = "adding" /\ pc' # "adding" /\ writer.tiles = <<>>)
       => /\ raised' = "ValueError"
          /\ pc' = "write_failed"
          /\ disk' = disk
          /\ writer' = writer]_vars

\* write() has raised on a writer that holds labels and no tiles, with an
\* earlier file at output_path, and the file is still there
EmptyWriteTouchesNothingWitness ==
    /\ pc = "write_failed"
    /\ raised = "ValueError"
    /\ writer.tiles = <<>>
    /\ writer.labels # <<>>
    /\ disk \in OutputPaths
    /\ disk.exists

\* the bytes pack_3bit_pixels gives process_tile_image for the
\* TILE_SIZE x TILE_SIZE pixels of a tile: three for every eight pixels
packed_tile_len == ((TILE_SIZE * TILE_SIZE) \div 8) * 3

\* C30: the compressed form of n >= 1 bytes has at most 2n + 1 bytes, and
\* 2n + 1 for the n bytes of a packed tile is a size that the index entry
\* format packs
RleLengthBound ==
    /\ (pc \in {"rle_compressed", "rle_restored"} /\ Len(data) >= 1)
          => Len(compressed) <= 2 * Len(data) + 1
    /\ packed_tile_len = 24576
    /\ struct_pack(INDEX_ENTRY_FORMAT, <<0, 0, 0, 0, 2 * packed_tile_len + 1>>).ok

\* an input of three bytes whose compressed form has 2 * 3 + 1 bytes
RleLengthBoundWitness ==
    /\ pc = "rle_compressed"
    /\ Len(data) = 3
    /\ Len(compressed) = 2 * Len(data) + 1
====
